---- MODULE Spec2Model ----
(***************************************************************************)
(* Model of prompt_builder.py: the mention extractor, the content          *)
(* formatter and the chunk assembler.                                      *)
(*                                                                         *)
(* A Python str is a sequence of characters, each a one-character string   *)
(* ("a", "/", "\n").  The backquote character is written BACKTICK, and an  *)
(* opaque piece of template text is written as one token ("[main]").       *)
(***************************************************************************)
EXTENDS Integers, Sequences, FiniteSets, TLC

VARIABLES os_name, disk, chat_files, read_only_files, user_message, fence,
          prompts, chunks, repo_map_content, read_only_content,
          chat_files_content, mentioned_files, mentioned_idents, addable,
          content, final_prompt_messages, no_shell, pc

vars == <<os_name, disk, chat_files, read_only_files, user_message, fence,
          prompts, chunks, repo_map_content, read_only_content,
          chat_files_content, mentioned_files, mentioned_idents, addable,
          content, final_prompt_messages, no_shell, pc>>

-----------------------------------------------------------------------------
(* Characters and str methods                                              *)

BACKTICK == "BACKTICK"
NL == "\n"
Whitespace == {" ", "\n", "\t", "\r"}
Digits == {"0", "1", "2", "3", "4", "5", "6", "7", "8", "9"}
LowerLetters == {"a", "b", "c", "d", "e", "f", "g", "h", "i", "j", "k", "l", "m",
                 "n", "o", "p", "q", "r", "s", "t", "u", "v", "w", "x", "y", "z"}
UpperLetters == {"A", "B", "C", "D", "E", "F", "G", "H", "I", "J", "K", "L", "M",
                 "N", "O", "P", "Q", "R", "S", "T", "U", "V", "W", "X", "Y", "Z"}
Alnum == LowerLetters \cup UpperLetters \cup Digits

\* str.lower(), character by character
LowerChar(c) ==
    CASE c = "A" -> "a" [] c = "B" -> "b" [] c = "C" -> "c" [] c = "D" -> "d"
      [] c = "E" -> "e" [] c = "F" -> "f" [] c = "G" -> "g" [] c = "H" -> "h"
      [] c = "I" -> "i" [] c = "J" -> "j" [] c = "K" -> "k" [] c = "L" -> "l"
      [] c = "M" -> "m" [] c = "N" -> "n" [] c = "O" -> "o" [] c = "P" -> "p"
      [] c = "Q" -> "q" [] c = "R" -> "r" [] c = "S" -> "s" [] c = "T" -> "t"
      [] c = "U" -> "u" [] c = "V" -> "v" [] c = "W" -> "w" [] c = "X" -> "x"
      [] c = "Y" -> "y" [] c = "Z" -> "z" [] OTHER -> c
lower(s) == [i \in 1..Len(s) |-> LowerChar(s[i])]

\* s.endswith(c) for a one-character c
endswith(s, c) == Len(s) > 0 /\ s[Len(s)] = c

\* s.replace(old, new) for one-character old and new
replace(s, old, new) == [i \in 1..Len(s) |-> IF s[i] = old THEN new ELSE s[i]]

\* sep.join(list)
RECURSIVE join(_, _)
join(sep, list) ==
    IF list = <<>> THEN <<>>
    ELSE IF Len(list) = 1 THEN list[1]
    ELSE list[1] \o sep \o join(sep, Tail(list))

\* s.rstrip(chars)
RECURSIVE rstrip(_, _)
rstrip(s, chars) ==
    IF Len(s) > 0 /\ s[Len(s)] \in chars THEN rstrip(SubSeq(s, 1, Len(s) - 1), chars)
    ELSE s

\* s.lstrip(chars)
RECURSIVE lstrip(_, _)
lstrip(s, chars) ==
    IF Len(s) > 0 /\ s[1] \in chars THEN lstrip(Tail(s), chars)
    ELSE s

\* s.strip(chars)
strip(s, chars) == rstrip(lstrip(s, chars), chars)

\* The maximal runs of s made only of characters in Keep, as position pairs
Runs(s, Keep) ==
    { <<i, j>> \in (1..Len(s)) \X (1..Len(s)) :
        /\ i <= j
        /\ \A k \in i..j : s[k] \in Keep
        /\ (i = 1 \/ s[i - 1] \notin Keep)
        /\ (j = Len(s) \/ s[j + 1] \notin Keep) }

\* set(s.split()): the whitespace-separated words, none empty
split(s) ==
    LET chars == { s[k] : k \in 1..Len(s) } \ Whitespace
    IN  { SubSeq(s, r[1], r[2]) : r \in Runs(s, chars) }

\* s.isdigit()
isdigit(s) == Len(s) > 0 /\ \A k \in 1..Len(s) : s[k] \in Digits

\* The characters the regular expression class \w matches
WordChars == Alnum \cup {"_"}

\* set(re.split(r"\W+", text)): the runs of word characters, and the empty
\* string where the text is empty or starts or ends with a separator
re_split_W(text) ==
    { SubSeq(text, r[1], r[2]) : r \in Runs(text, WordChars) }
    \cup (IF \/ text = <<>>
             \/ text[1] \notin WordChars
             \/ text[Len(text)] \notin WordChars
          THEN {<<>>} ELSE {})

-----------------------------------------------------------------------------
(* os.path on the two platforms the script distinguishes (os.name)         *)

OsNames == {"posix", "nt"}

\* os.sep and the characters os.path treats as separators
os_sep(os) == IF os = "nt" THEN "\\" ELSE "/"
Seps(os) == IF os = "nt" THEN {"/", "\\"} ELSE {"/"}

\* os.path.basename(p): what follows the last separator
RECURSIVE basename(_, _)
basename(os, p) ==
    IF \E k \in 1..Len(p) : p[k] \in Seps(os)
    THEN basename(os, Tail(p))
    ELSE p

\* The key of the disk a relative name resolves to under the root
\* (os.path.join(root, f), then the platform's own reading of separators)
Resolve(os, f) == IF os = "nt" THEN replace(f, "\\", "/") ELSE f

\* os.path.exists(p) and os.path.isfile(p)
isfile(os, dk, f) == Resolve(os, f) \in DOMAIN dk

\* The directory components of a disk key, and its file name
RECURSIVE Components(_)
Components(p) ==
    IF \E k \in 1..Len(p) : p[k] = "/"
    THEN LET k == CHOOSE k \in 1..Len(p) : p[k] = "/" /\ \A m \in 1..(k - 1) : p[m] # "/"
         IN  <<SubSeq(p, 1, k - 1)>> \o Components(SubSeq(p, k + 1, Len(p)))
    ELSE <<p>>

\* Path(p).suffix: from the last dot of the file name, when that dot is
\* neither its first nor its last character
suffix(os, p) ==
    LET name == basename(os, p)
        dots == { k \in 2..Len(name) : name[k] = "." }
    IN  IF dots = {} \/ name[Len(name)] = "." THEN <<>>
        ELSE LET k == CHOOSE k \in dots : \A m \in dots : m <= k
             IN  SubSeq(name, k, Len(name))

Range(list) == { list[k] : k \in 1..Len(list) }

-----------------------------------------------------------------------------
(* Corpus index                                                            *)

exclude_dirs ==
    { <<".", "g", "i", "t">>,
      <<"n", "o", "d", "e", "_", "m", "o", "d", "u", "l", "e", "s">>,
      <<"v", "e", "n", "d", "o", "r">>,
      <<"b", "u", "i", "l", "d">>,
      <<"d", "i", "s", "t">>,
      <<"_", "_", "p", "y", "c", "a", "c", "h", "e", "_", "_">>,
      <<".", "v", "e", "n", "v">>,
      <<"e", "n", "v">> }

exclude_exts ==
    { <<".", "l", "o", "g">>, <<".", "t", "m", "p">>, <<".", "b", "a", "k">>,
      <<".", "s", "w", "p">>, <<".", "p", "y", "c">> }

\* find_src_files(directory): the files of the disk outside the excluded
\* directories and extensions, each as os.path.relpath renders it
find_src_files(os, dk) ==
    { replace(p, "/", os_sep(os)) :
        p \in { q \in DOMAIN dk :
                  /\ \A k \in 1..(Len(Components(q)) - 1) :
                        Components(q)[k] \notin exclude_dirs
                  /\ lower(suffix("posix", q)) \notin exclude_exts } }

\* get_all_relative_files: as a set (the code returns it sorted)
get_all_relative_files(os, dk, chat, ro) ==
    find_src_files(os, dk) \cup { f \in Range(chat \o ro) : isfile(os, dk, f) }

\* get_addable_relative_files: as a set (the code returns it sorted)
get_addable_relative_files(os, dk, chat, ro) ==
    (get_all_relative_files(os, dk, chat, ro) \ Range(chat)) \ Range(ro)

-----------------------------------------------------------------------------
(* Mention extractor                                                       *)

Punctuation == {",", ".", "!", ";", ":", "?"}
quotes == {"\"", "'", BACKTICK}

\* The candidate words of a message: lines 115-118
CandidateWords(text) ==
    { strip(w, quotes) : w \in { rstrip(v, Punctuation) : v \in split(text) } }

\* The basenames of the files already in the chat or read-only: lines 123-124
existing_basenames(os, chat, ro) ==
    { basename(os, f) : f \in Range(chat) } \cup { basename(os, f) : f \in Range(ro) }

\* The addable files the loop does not skip: lines 128-131
Considered(os, dk, chat, ro) ==
    { f \in get_addable_relative_files(os, dk, chat, ro) :
        basename(os, f) \notin existing_basenames(os, chat, ro) }

\* Line 144: the basename looks like a file name
LooksLikeFilename(fname) ==
    \E k \in 1..Len(fname) : fname[k] \in {"/", "\\", ".", "_", "-"}

\* DirectMatches with the normalization of lines 134-135 lost
DirectMatches_raw(os, dk, text, chat, ro) ==
    { f \in Considered(os, dk, chat, ro) : f \in CandidateWords(text) }

\* Lines 133-139: the files whose normalized path is a normalized word
DirectMatches(os, dk, text, chat, ro) ==
    LET normalized_words == { replace(w, "\\", "/") : w \in CandidateWords(text) }
    IN  { f \in Considered(os, dk, chat, ro) : replace(f, "\\", "/") \in normalized_words }

\* Lines 143-152: fname_to_rel_fnames[fname], and the unique basename matches
fname_to_rel_fnames(os, dk, chat, ro, fname) ==
    { g \in Considered(os, dk, chat, ro) : basename(os, g) = fname }

\* BasenameMatches with the len(rel_fnames) == 1 test of line 151 lost
BasenameMatches_ambiguous(os, dk, text, chat, ro) ==
    { f \in Considered(os, dk, chat, ro) :
        /\ LooksLikeFilename(basename(os, f))
        /\ basename(os, f) \in CandidateWords(text) }

BasenameMatches(os, dk, text, chat, ro) ==
    { f \in Considered(os, dk, chat, ro) :
        /\ LooksLikeFilename(basename(os, f))
        /\ Cardinality(fname_to_rel_fnames(os, dk, chat, ro, basename(os, f))) = 1
        /\ basename(os, f) \in CandidateWords(text) }

\* get_file_mentions: as a set (the code returns list(set))
get_file_mentions(os, dk, text, chat, ro) ==
    DirectMatches(os, dk, text, chat, ro) \cup BasenameMatches(os, dk, text, chat, ro)

\* get_ident_mentions: as a set (the code returns a list of distinct words)
get_ident_mentions(text) ==
    { w \in re_split_W(text) : Len(w) >= 3 /\ ~isdigit(w) }

-----------------------------------------------------------------------------
(* Content formatter                                                       *)

image_exts ==
    { <<".", "p", "n", "g">>, <<".", "j", "p", "g">>, <<".", "j", "p", "e", "g">>,
      <<".", "g", "i", "f">>, <<".", "w", "e", "b", "p">>, <<".", "b", "m", "p">> }

\* Line 322: the name has an image extension
IsImage(os, fname) == lower(suffix(os, fname)) \in image_exts

\* Lines 326-327: open() and read() succeed
ReadOk(os, dk, fname) == isfile(os, dk, fname) /\ dk[Resolve(os, fname)].readable

\* file_text with the endswith test of line 329 lost: a newline is always added
file_text_always_newline(file_content) == file_content \o <<NL>>

\* Lines 329-330: the text of a file as it is placed in its block
file_text(file_content) ==
    IF file_content # <<>> /\ ~endswith(file_content, NL)
    THEN file_content \o <<NL>>
    ELSE file_content

\* Lines 319-334: the block of one file
file_block(os, dk, fname, fnc) ==
    IF IsImage(os, fname)
    THEN fname \o <<NL>> \o fnc[1] \o <<NL, "[Image file content not shown]", NL>> \o fnc[2]
    ELSE IF ReadOk(os, dk, fname)
    THEN fname \o <<NL>> \o fnc[1] \o <<NL>> \o file_text(dk[Resolve(os, fname)].text) \o fnc[2]
    ELSE fname \o <<NL>> \o fnc[1] \o <<NL, "[Error reading file content]", NL>> \o fnc[2]

\* Lines 316-334: the list named content when the loop ends
format_blocks(os, dk, files, fnc) ==
    [i \in 1..Len(files) |-> file_block(os, dk, files[i], fnc)]

\* format_files_content with the trailing newline of line 338 lost
format_files_content_no_newline(os, dk, files, fnc) ==
    IF files = <<>> THEN <<>>
    ELSE join(<<NL>>, format_blocks(os, dk, files, fnc))

\* format_files_content
format_files_content(os, dk, files, fnc) ==
    IF files = <<>> THEN <<>>
    ELSE LET result == join(<<NL>>, format_blocks(os, dk, files, fnc))
         IN  IF result # <<>> THEN result \o <<NL>> ELSE <<>>

-----------------------------------------------------------------------------
(* Templates and messages                                                  *)

RECURSIVE Flatten(_)
Flatten(lists) == IF lists = <<>> THEN <<>> ELSE lists[1] \o Flatten(Tail(lists))

\* template.format(**env): each placeholder token replaced by its value
Format(template, env) ==
    Flatten([i \in 1..Len(template) |->
                IF template[i] \in DOMAIN env THEN env[template[i]] ELSE <<template[i]>>])

Msg(role, text) == [role |-> role, content |-> text]

\* get_platform_info(repo=True): opaque
platform_text == <<"[platform]">>

\* The keyword arguments the system templates are formatted with
TemplateEnv(fnc, quad_backtick_reminder, lazy_prompt, shell_cmd_prompt, shell_cmd_reminder) ==
    [x \in {"{fence[0]}", "{fence[1]}", "{quad_backtick_reminder}", "{lazy_prompt}",
            "{platform}", "{shell_cmd_prompt}", "{shell_cmd_reminder}"} |->
        CASE x = "{fence[0]}" -> fnc[1]
          [] x = "{fence[1]}" -> fnc[2]
          [] x = "{quad_backtick_reminder}" -> quad_backtick_reminder
          [] x = "{lazy_prompt}" -> lazy_prompt
          [] x = "{platform}" -> platform_text
          [] x = "{shell_cmd_prompt}" -> shell_cmd_prompt
          [] x = "{shell_cmd_reminder}" -> shell_cmd_reminder]

PlatformEnv == [x \in {"{platform}"} |-> platform_text]

\* fmt_system_prompt
fmt_system_prompt(pr, fnc, suggest_shell_commands) ==
    LET shell_cmd_prompt ==
            Format(IF suggest_shell_commands THEN pr.shell_cmd_prompt
                   ELSE pr.no_shell_cmd_prompt, PlatformEnv)
        shell_cmd_reminder ==
            Format(IF suggest_shell_commands THEN pr.shell_cmd_reminder
                   ELSE pr.no_shell_cmd_reminder, PlatformEnv)
        quad_backtick_reminder ==
            IF fnc[1] = <<BACKTICK, BACKTICK, BACKTICK, BACKTICK>>
            THEN <<"[quad_backtick_reminder]">> ELSE <<>>
        env == TemplateEnv(fnc, quad_backtick_reminder, pr.lazy_prompt,
                           shell_cmd_prompt, shell_cmd_reminder)
        system_content ==
            Format(pr.main_system, env @@ [x \in {"{language}"} |-> <<"[language]">>])
    IN  IF pr.system_reminder # <<>>
        THEN system_content \o <<NL>> \o Format(pr.system_reminder, env)
        ELSE system_content

\* get_repo_map_messages with the two messages of lines 272-273 swapped
get_repo_map_messages_reply_first(repo_content, pr) ==
    IF repo_content = <<>> THEN <<>>
    ELSE << Msg("assistant", <<"Ok, I won't try and edit those files without asking first.">>),
            Msg("user", pr.repo_content_prefix \o repo_content) >>

\* get_repo_map_messages
get_repo_map_messages(repo_content, pr) ==
    IF repo_content = <<>> THEN <<>>
    ELSE LET repo_prefix ==
                 Format(pr.repo_content_prefix,
                        [x \in {"{other}"} |->
                            IF pr.chat_files # <<>> THEN <<"o", "t", "h", "e", "r", " ">>
                            ELSE <<>>])
         IN  << Msg("user", repo_prefix \o repo_content),
                Msg("assistant", <<"Ok, I won't try and edit those files without asking first.">>) >>

\* get_readonly_files_messages answering without the user turn
get_readonly_files_messages_reply_only(text, pr) ==
    IF text = <<>> THEN <<>>
    ELSE << Msg("assistant", <<"Ok, I will use these files as references.">>) >>

\* get_readonly_files_messages
get_readonly_files_messages(text, pr) ==
    IF text = <<>> THEN <<>>
    ELSE << Msg("user", pr.read_only_files_prefix \o text),
            Msg("assistant", <<"Ok, I will use these files as references.">>) >>

\* get_chat_files_messages with the has_repo_map test of line 290 lost
get_chat_files_messages_no_map_test(text, pr, has_repo_map) ==
    IF text = <<>>
    THEN << Msg("user", pr.files_no_full_files), Msg("assistant", <<"Ok.">>) >>
    ELSE << Msg("user", pr.files_content_prefix \o text),
            Msg("assistant", pr.files_content_assistant_reply) >>

\* get_chat_files_messages
get_chat_files_messages(text, pr, has_repo_map) ==
    IF text = <<>>
    THEN IF has_repo_map /\ pr.files_no_full_files_with_repo_map # <<>>
         THEN << Msg("user", pr.files_no_full_files_with_repo_map),
                 Msg("assistant", pr.files_no_full_files_with_repo_map_reply) >>
         ELSE << Msg("user", pr.files_no_full_files),
                 Msg("assistant", <<"Ok.">>) >>
    ELSE << Msg("user", pr.files_content_prefix \o text),
            Msg("assistant", pr.files_content_assistant_reply) >>

\* The pair all_messages puts after the examples: lines 183-190
ResetPair ==
    << Msg("user", <<"Now working with a new code base. The examples above were just demonstrations.">>),
       Msg("assistant", <<"Understood, I'll focus on the actual files and requests.">>) >>

\* all_messages with the test of line 181 lost: the reset pair is always there
all_messages_reset_always(ch) ==
    ch.system \o ch.examples \o ResetPair \o ch.context \o ch.current

\* ChatChunks.all_messages
all_messages(ch) ==
    LET m1 == ch.system
        m2 == IF ch.examples # <<>> THEN m1 \o ch.examples \o ResetPair ELSE m1
        m3 == m2 \o ch.context
    IN  m3 \o ch.current

-----------------------------------------------------------------------------
(* The inputs of a run                                                     *)

MaxExampleMsgs == 3
MaxWords == 2
MaxFsFiles == 2
MaxFiles == 2
MaxContentLen == 3
MaxTextLen == 4

\* Every sequence over S of length at most n
SeqsUpTo(S, n) == UNION { [1..k -> S] : k \in 0..n }

BT3 == <<BACKTICK, BACKTICK, BACKTICK>>
BT4 == <<BACKTICK, BACKTICK, BACKTICK, BACKTICK>>
DefaultFence == <<BT3, BT3>>

P_sa == <<"s", "/", "a", ".", "p">>
P_ua == <<"u", "/", "a", ".", "p">>
P_Rm == <<"R", ".", "m">>
P_mk == <<"m", "k">>
P_env == <<"e", "n", "v", "/", "b", ".", "p">>
P_ap == <<"a", ".", "p">>
P_bp == <<"b", ".", "p">>
P_img == <<"i", ".", "P", "N", "G">>
P_blank == <<" ">>

File(readable, text) == [readable |-> readable, text |-> text]

\* The template provider: RepoPrompts(), with the templates whose emptiness
\* the script tests left open
RepoPrompts(example_messages, with_repo_map, system_reminder) ==
    [ main_system |-> <<"[main_system]", "{fence[0]}", "{quad_backtick_reminder}",
                        "{lazy_prompt}", "{shell_cmd_prompt}", "{shell_cmd_reminder}",
                        "{language}">>,
      system_reminder |-> system_reminder,
      lazy_prompt |-> <<"[lazy_prompt]">>,
      shell_cmd_prompt |-> <<"[shell_cmd_prompt]", "{platform}">>,
      shell_cmd_reminder |-> <<"[shell_cmd_reminder]", "{platform}">>,
      no_shell_cmd_prompt |-> <<"[no_shell_cmd_prompt]", "{platform}">>,
      no_shell_cmd_reminder |-> <<"[no_shell_cmd_reminder]">>,
      example_messages |-> example_messages,
      repo_content_prefix |-> <<"[repo_content_prefix]", "{other}">>,
      read_only_files_prefix |-> <<"[read_only_files_prefix]">>,
      files_content_prefix |-> <<"[files_content_prefix]">>,
      files_content_assistant_reply |-> <<"[files_content_assistant_reply]">>,
      files_no_full_files |-> <<"[files_no_full_files]">>,
      files_no_full_files_with_repo_map |-> with_repo_map,
      files_no_full_files_with_repo_map_reply |-> <<"[files_no_full_files_with_repo_map_reply]">>,
      chat_files |-> <<>> ]

\* An example list of n messages, alternating user and assistant from user
ExampleMessages(n) ==
    [i \in 1..n |-> Msg(IF i % 2 = 1 THEN "user" ELSE "assistant",
                        <<"[example]", "{fence[0]}", "{fence[1]}">>)]

PromptsInputs ==
    { RepoPrompts(ExampleMessages(n), w, r) :
        n \in 0..MaxExampleMsgs,
        w \in {<<>>, <<"[files_no_full_files_with_repo_map]">>},
        r \in {<<>>, <<"[system_reminder]", "{fence[0]}", "{shell_cmd_reminder}">>} }

\* ChatChunks.__init__, with the attributes main attaches left empty
ChatChunks ==
    [system |-> <<>>, examples |-> <<>>, context |-> <<>>, current |-> <<>>,
     repo |-> <<>>, readonly_files |-> <<>>, chat_files |-> <<>>]

\* What generate_map may return: no summary, or one of two summaries
MapTexts == { <<>>, <<"[repo map]">>, <<"[repo map B]">> }

\* Messages of at most n words of W, separated by single spaces
Messages(W, n) == { join(<<" ">>, ws) : ws \in SeqsUpTo(W, n) }

\* The variables a specification does not draw from its inputs
Untouched ==
    /\ chunks = ChatChunks
    /\ repo_map_content = <<>>
    /\ read_only_content = <<>>
    /\ chat_files_content = <<>>
    /\ mentioned_files = {}
    /\ mentioned_idents = {}
    /\ addable = {}
    /\ content = <<>>
    /\ final_prompt_messages = <<>>

-----------------------------------------------------------------------------
(* main, section by section                                                *)

MainDisks ==
    { [p \in {} |-> File(TRUE, <<>>)],
      [p \in {P_ap, P_Rm} |-> File(TRUE, <<"x">>)] }

MainMessages == { <<>>, <<"R", ".", "m", ",", " ", "f", "o", "_", "1">> }

Init ==
    /\ os_name \in OsNames
    /\ disk \in MainDisks
    /\ chat_files \in { <<>>, <<P_ap>> }
    /\ read_only_files \in { <<>>, <<P_Rm>> }
    /\ user_message \in MainMessages
    /\ fence \in { <<BT3, BT3>>, <<BT4, BT4>> }
    /\ no_shell \in BOOLEAN
    /\ prompts \in PromptsInputs
    /\ Untouched
    /\ pc = "start"

\* Lines 365-386: the arguments, the template provider, the system chunk
SystemPrompt ==
    /\ pc = "start"
    /\ prompts' = [prompts EXCEPT !.chat_files = chat_files]
    /\ chunks' = [chunks EXCEPT !.system =
                     << Msg("system", fmt_system_prompt(prompts', fence, ~no_shell)) >>]
    /\ pc' = "examples"
    /\ UNCHANGED <<os_name, disk, chat_files, read_only_files, user_message, fence,
                   repo_map_content, read_only_content, chat_files_content,
                   mentioned_files, mentioned_idents, addable, content,
                   final_prompt_messages, no_shell>>

\* Lines 388-396: the examples chunk
FewShotExamples ==
    /\ pc = "examples"
    /\ chunks' = [chunks EXCEPT !.examples =
                     [i \in 1..Len(prompts.example_messages) |->
                         Msg(prompts.example_messages[i].role,
                             Format(prompts.example_messages[i].content,
                                    [x \in {"{fence[0]}", "{fence[1]}"} |->
                                        IF x = "{fence[0]}" THEN fence[1] ELSE fence[2]]))]]
    /\ pc' = "repo_map"
    /\ UNCHANGED <<os_name, disk, chat_files, read_only_files, user_message, fence,
                   prompts, repo_map_content, read_only_content, chat_files_content,
                   mentioned_files, mentioned_idents, addable, content,
                   final_prompt_messages, no_shell>>

\* Lines 399-423: the mentions, the first generate_map call, chunks.repo
RepoMap ==
    /\ pc = "repo_map"
    /\ mentioned_files' =
           get_file_mentions(os_name, disk, user_message, chat_files, read_only_files)
    /\ mentioned_idents' = get_ident_mentions(user_message)
    /\ \E text \in MapTexts :
          /\ repo_map_content' = text
          /\ chunks' = [chunks EXCEPT !.repo = get_repo_map_messages(text, prompts)]
    /\ pc' = "read_only"
    /\ UNCHANGED <<os_name, disk, chat_files, read_only_files, user_message, fence,
                   prompts, read_only_content, chat_files_content, addable, content,
                   final_prompt_messages, no_shell>>

\* Lines 425-427: chunks.readonly_files
ReadOnlyFiles ==
    /\ pc = "read_only"
    /\ read_only_content' = format_files_content(os_name, disk, read_only_files, fence)
    /\ chunks' = [chunks EXCEPT !.readonly_files =
                     get_readonly_files_messages(read_only_content', prompts)]
    /\ pc' = "chat"
    /\ UNCHANGED <<os_name, disk, chat_files, read_only_files, user_message, fence,
                   prompts, repo_map_content, chat_files_content, mentioned_files,
                   mentioned_idents, addable, content, final_prompt_messages, no_shell>>

\* Lines 429-435: chunks.chat_files
ChatFiles ==
    /\ pc = "chat"
    /\ chat_files_content' = format_files_content(os_name, disk, chat_files, fence)
    /\ chunks' = [chunks EXCEPT !.chat_files =
                     get_chat_files_messages(chat_files_content', prompts,
                                             repo_map_content # <<>>)]
    /\ pc' = "context_repo"
    /\ UNCHANGED <<os_name, disk, chat_files, read_only_files, user_message, fence,
                   prompts, repo_map_content, read_only_content, mentioned_files,
                   mentioned_idents, addable, content, final_prompt_messages, no_shell>>

\* Lines 437-447: the second generate_map call, the summary pair of the context
ContextRepoMap ==
    /\ pc = "context_repo"
    /\ \E text \in MapTexts :
          /\ repo_map_content' = text
          /\ chunks' = [chunks EXCEPT !.context =
                           IF text # <<>> THEN get_repo_map_messages(text, prompts)
                           ELSE <<>>]
    /\ pc' = "context_read_only"
    /\ UNCHANGED <<os_name, disk, chat_files, read_only_files, user_message, fence,
                   prompts, read_only_content, chat_files_content, mentioned_files,
                   mentioned_idents, addable, content, final_prompt_messages, no_shell>>

\* Lines 449-452: the read-only pair of the context
ContextReadOnly ==
    /\ pc = "context_read_only"
    /\ read_only_content' = format_files_content(os_name, disk, read_only_files, fence)
    /\ chunks' = [chunks EXCEPT !.context =
                     IF read_only_content' # <<>>
                     THEN @ \o get_readonly_files_messages(read_only_content', prompts)
                     ELSE @]
    /\ pc' = "context_chat"
    /\ UNCHANGED <<os_name, disk, chat_files, read_only_files, user_message, fence,
                   prompts, repo_map_content, chat_files_content, mentioned_files,
                   mentioned_idents, addable, content, final_prompt_messages, no_shell>>

\* ContextChatFiles reusing chunks.chat_files of line 431 instead of calling
\* get_chat_files_messages again with the second summary
ContextChatFiles_reuse_first ==
    /\ pc = "context_chat"
    /\ chat_files_content' = format_files_content(os_name, disk, chat_files, fence)
    /\ chunks' = [chunks EXCEPT !.context = @ \o chunks.chat_files]
    /\ pc' = "current"
    /\ UNCHANGED <<os_name, disk, chat_files, read_only_files, user_message, fence,
                   prompts, repo_map_content, read_only_content, mentioned_files,
                   mentioned_idents, addable, content, final_prompt_messages, no_shell>>

\* Lines 454-460: the chat-files pair of the context
ContextChatFiles ==
    /\ pc = "context_chat"
    /\ chat_files_content' = format_files_content(os_name, disk, chat_files, fence)
    /\ chunks' = [chunks EXCEPT !.context =
                     @ \o get_chat_files_messages(chat_files_content', prompts,
                                                  repo_map_content # <<>>)]
    /\ pc' = "current"
    /\ UNCHANGED <<os_name, disk, chat_files, read_only_files, user_message, fence,
                   prompts, repo_map_content, read_only_content, mentioned_files,
                   mentioned_idents, addable, content, final_prompt_messages, no_shell>>

\* Lines 462-477: the current chunk
CurrentMessage ==
    /\ pc = "current"
    /\ chunks' = [chunks EXCEPT !.current =
                     << Msg("user", user_message) >> \o
                     (IF prompts.system_reminder # <<>>
                      THEN << Msg("system",
                                  Format(prompts.system_reminder,
                                         TemplateEnv(fence, <<>>, prompts.lazy_prompt,
                                                     Format(prompts.shell_cmd_prompt, PlatformEnv),
                                                     Format(prompts.shell_cmd_reminder, PlatformEnv)))) >>
                      ELSE <<>>)]
    /\ pc' = "output"
    /\ UNCHANGED <<os_name, disk, chat_files, read_only_files, user_message, fence,
                   prompts, repo_map_content, read_only_content, chat_files_content,
                   mentioned_files, mentioned_idents, addable, content,
                   final_prompt_messages, no_shell>>

\* Lines 480-482: the final message sequence
Output ==
    /\ pc = "output"
    /\ final_prompt_messages' = all_messages(chunks)
    /\ pc' = "done"
    /\ UNCHANGED <<os_name, disk, chat_files, read_only_files, user_message, fence,
                   prompts, chunks, repo_map_content, read_only_content,
                   chat_files_content, mentioned_files, mentioned_idents, addable,
                   content, no_shell>>

Next ==
    \/ SystemPrompt
    \/ FewShotExamples
    \/ RepoMap
    \/ ReadOnlyFiles
    \/ ChatFiles
    \/ ContextRepoMap
    \/ ContextReadOnly
    \/ ContextChatFiles
    \/ CurrentMessage
    \/ Output

Spec == Init /\ [][Next]_vars

-----------------------------------------------------------------------------
(* Properties of the chunk assembler                                       *)

\* The context chunk is complete
ContextBuilt == pc \in {"current", "output", "done"}

\* The last two messages of the context chunk: the chat-files pair
ContextChatPair == SubSeq(chunks.context, Len(chunks.context) - 1, Len(chunks.context))

RepoMapNoFilesPair ==
    << [role |-> "user", content |-> prompts.files_no_full_files_with_repo_map],
       [role |-> "assistant", content |-> prompts.files_no_full_files_with_repo_map_reply] >>

PlainNoFilesPair ==
    << [role |-> "user", content |-> prompts.files_no_full_files],
       [role |-> "assistant", content |-> <<"Ok.">>] >>

\* C1 as stated: for every template provider, empty chat-file content and a
\* non-empty repository summary give the "repo map exists, no full files" pair,
\* never the plain "no full files" pair, both from get_chat_files_messages
\* (chunks.chat_files) and in the context chunk.
C1_Original ==
    /\ (pc = "context_repo" /\ chat_files_content = <<>> /\ repo_map_content # <<>>)
          => (chunks.chat_files = RepoMapNoFilesPair /\ chunks.chat_files # PlainNoFilesPair)
    /\ (ContextBuilt /\ chat_files_content = <<>> /\ repo_map_content # <<>>)
          => (ContextChatPair = RepoMapNoFilesPair /\ ContextChatPair # PlainNoFilesPair)

\* C1 amended: the same, for every template provider whose "repo map exists, no
\* full files" template is non-empty; with that template empty the pair is the
\* plain "no full files" pair.
C1_RepoMapPairChosen ==
    /\ (pc = "context_repo" /\ chat_files_content = <<>> /\ repo_map_content # <<>>)
          => chunks.chat_files =
                IF prompts.files_no_full_files_with_repo_map # <<>>
                THEN RepoMapNoFilesPair ELSE PlainNoFilesPair
    /\ (ContextBuilt /\ chat_files_content = <<>> /\ repo_map_content # <<>>)
          => /\ ContextChatPair =
                   IF prompts.files_no_full_files_with_repo_map # <<>>
                   THEN RepoMapNoFilesPair ELSE PlainNoFilesPair
             /\ prompts.files_no_full_files_with_repo_map # <<>>
                   => ContextChatPair # PlainNoFilesPair

C1_Witness ==
    /\ pc = "done"
    /\ chat_files_content = <<>>
    /\ repo_map_content # <<>>
    /\ prompts.files_no_full_files_with_repo_map # <<>>
    /\ ContextChatPair = RepoMapNoFilesPair

ResetUser ==
    [role |-> "user",
     content |-> <<"Now working with a new code base. The examples above were just demonstrations.">>]
ResetAssistant ==
    [role |-> "assistant",
     content |-> <<"Understood, I'll focus on the actual files and requests.">>]

\* C2: the final sequence is system, examples, the reset pair, context, current
\* when there are examples, and system, context, current when there are none;
\* the reset pair is there iff the examples chunk is non-empty, directly after
\* the last example; nothing is dropped, duplicated or reordered.
C2_FinalSequence ==
    pc = "done" =>
        LET f == final_prompt_messages
            ns == Len(chunks.system)
            ne == Len(chunks.examples)
            nr == IF ne > 0 THEN 2 ELSE 0
            nc == Len(chunks.context)
            nu == Len(chunks.current)
        IN  /\ Len(f) = ns + ne + nr + nc + nu
            /\ SubSeq(f, 1, ns) = chunks.system
            /\ SubSeq(f, ns + 1, ns + ne) = chunks.examples
            /\ ne > 0 => (f[ns + ne + 1] = ResetUser /\ f[ns + ne + 2] = ResetAssistant)
            /\ SubSeq(f, ns + ne + nr + 1, ns + ne + nr + nc) = chunks.context
            /\ SubSeq(f, ns + ne + nr + nc + 1, Len(f)) = chunks.current
            /\ (\E i \in 1..Len(f) : f[i] \in {ResetUser, ResetAssistant}) <=> ne > 0

C2_Witness ==
    /\ pc = "done"
    /\ chunks.examples = <<>>
    /\ Len(chunks.context) = 6
    /\ Len(chunks.current) = 2
    /\ final_prompt_messages = chunks.system \o chunks.context \o chunks.current

\* C3: the context chunk is the repository-summary pair (iff the summary is
\* non-empty), then the read-only pair (iff the read-only content is non-empty),
\* then exactly one chat-files pair, and nothing else; with no chat files, no
\* read-only files and an empty summary it is exactly the plain "no full files"
\* pair.
C3_ContextOrder ==
    ContextBuilt =>
        LET c == chunks.context
            summary ==
                IF repo_map_content # <<>>
                THEN << [role |-> "user",
                         content |-> <<"[repo_content_prefix]">>
                                     \o (IF chat_files # <<>>
                                         THEN <<"o", "t", "h", "e", "r", " ">> ELSE <<>>)
                                     \o repo_map_content],
                        [role |-> "assistant",
                         content |-> <<"Ok, I won't try and edit those files without asking first.">>] >>
                ELSE <<>>
            readonly ==
                IF read_only_content # <<>>
                THEN << [role |-> "user",
                         content |-> prompts.read_only_files_prefix \o read_only_content],
                        [role |-> "assistant",
                         content |-> <<"Ok, I will use these files as references.">>] >>
                ELSE <<>>
            chat ==
                IF chat_files_content # <<>>
                THEN << [role |-> "user",
                         content |-> prompts.files_content_prefix \o chat_files_content],
                        [role |-> "assistant",
                         content |-> prompts.files_content_assistant_reply] >>
                ELSE IF repo_map_content # <<>>
                        /\ prompts.files_no_full_files_with_repo_map # <<>>
                THEN RepoMapNoFilesPair
                ELSE PlainNoFilesPair
        IN  /\ c = summary \o readonly \o chat
            /\ (chat_files = <<>> /\ read_only_files = <<>> /\ repo_map_content = <<>>)
                  => c = PlainNoFilesPair

C3_Witness ==
    /\ pc = "done"
    /\ chat_files = <<>>
    /\ read_only_files = <<>>
    /\ repo_map_content = <<>>
    /\ chunks.context = PlainNoFilesPair

\* C4: in the final sequence every assistant message directly follows a user
\* message, whichever chunks are empty.
C4_NoDanglingAssistant ==
    pc = "done" =>
        \A i \in 1..Len(final_prompt_messages) :
            final_prompt_messages[i].role = "assistant"
                => (i > 1 /\ final_prompt_messages[i - 1].role = "user")

C4_Witness ==
    /\ pc = "done"
    /\ chunks.examples = <<>>
    /\ repo_map_content = <<>>
    /\ read_only_content = <<>>
    /\ chat_files_content = <<>>
    /\ prompts.system_reminder = <<>>
    /\ \E i \in 2..Len(final_prompt_messages) :
          final_prompt_messages[i].role = "assistant"

-----------------------------------------------------------------------------
(* The corpus index and the file mentions, called on their own              *)

MentionFiles == { P_sa, P_ua, P_Rm, P_mk, P_env }

MentionDisks ==
    { [p \in S |-> File(TRUE, <<>>)] :
        S \in { T \in SUBSET MentionFiles : Cardinality(T) <= MaxFsFiles } }

ChatFileArgs == { <<>>, <<P_sa>>, << <<"s", "\\", "a", ".", "p">> >> }
ReadOnlyArgs == { <<>>, <<P_Rm>> }

MentionWords ==
    { <<"a", ".", "p">>,
      <<"s", "/", "a", ".", "p">>,
      <<"u", "\\", "a", ".", "p", ",">>,
      <<"'", "R", ".", "m", "'", ".">>,
      <<"m", "k">> }

InitMentions ==
    /\ os_name \in OsNames
    /\ disk \in MentionDisks
    /\ chat_files \in ChatFileArgs
    /\ read_only_files \in ReadOnlyArgs
    /\ user_message \in Messages(MentionWords, MaxWords)
    /\ fence = DefaultFence
    /\ no_shell = FALSE
    /\ prompts = RepoPrompts(<<>>, <<>>, <<>>)
    /\ Untouched
    /\ pc = "mentions"

CallGetAddableRelativeFiles ==
    /\ pc = "mentions"
    /\ addable' = get_addable_relative_files(os_name, disk, chat_files, read_only_files)
    /\ pc' = "addable_done"
    /\ UNCHANGED <<os_name, disk, chat_files, read_only_files, user_message, fence,
                   prompts, chunks, repo_map_content, read_only_content,
                   chat_files_content, mentioned_files, mentioned_idents, content,
                   final_prompt_messages, no_shell>>

CallGetFileMentions ==
    /\ pc = "mentions"
    /\ mentioned_files' =
           get_file_mentions(os_name, disk, user_message, chat_files, read_only_files)
    /\ pc' = "file_mentions_done"
    /\ UNCHANGED <<os_name, disk, chat_files, read_only_files, user_message, fence,
                   prompts, chunks, repo_map_content, read_only_content,
                   chat_files_content, mentioned_idents, addable, content,
                   final_prompt_messages, no_shell>>

NextMentions == CallGetAddableRelativeFiles \/ CallGetFileMentions

SpecMentions == InitMentions /\ [][NextMentions]_vars

\* A file reference with its separators normalized
Normalized(f) == replace(f, "\\", "/")

\* The addable files of the inputs
Addable == get_addable_relative_files(os_name, disk, chat_files, read_only_files)

\* The candidate words of the message, separators normalized
NormalizedWords == { Normalized(w) : w \in CandidateWords(user_message) }

\* C5: no path get_addable_relative_files returns equals a chat file or a
\* read-only file, equality being taken after separator normalization.
C5_AddableDisjoint ==
    pc = "addable_done" =>
        \A f \in addable :
            \A g \in Range(chat_files) \cup Range(read_only_files) :
                Normalized(f) # Normalized(g)

\* C6 as stated: an addable file whose normalized path is a candidate word is
\* returned, whatever other files (addable, chat or read-only) share its
\* basename.
C6_Original ==
    pc = "file_mentions_done" =>
        \A f \in Addable : Normalized(f) \in NormalizedWords => f \in mentioned_files

\* C6 amended: an addable file whose normalized path is a candidate word is
\* returned, whatever other addable files share its basename, provided its
\* basename is not the basename of a chat file or of a read-only file; an
\* addable file whose basename is one of those is never returned.
C6_DirectMatchReturned ==
    pc = "file_mentions_done" =>
        \A f \in Addable :
            LET taken == \E g \in Range(chat_files) \cup Range(read_only_files) :
                            basename(os_name, g) = basename(os_name, f)
            IN  /\ (Normalized(f) \in NormalizedWords /\ ~taken) => f \in mentioned_files
                /\ taken => f \notin mentioned_files

C6_Witness ==
    /\ pc = "file_mentions_done"
    /\ \E f \in mentioned_files :
          /\ Normalized(f) \in NormalizedWords
          /\ f \notin CandidateWords(user_message)
          /\ \E g \in Addable : g # f /\ basename(os_name, g) = basename(os_name, f)

\* C7: a file whose basename is shared by two or more addable files is returned
\* only if its full relative path is a candidate word.
C7_AmbiguousBasenameNotAdded ==
    pc = "file_mentions_done" =>
        \A f \in mentioned_files :
            (\E g \in Addable : g # f /\ basename(os_name, g) = basename(os_name, f))
                => Normalized(f) \in NormalizedWords

C7_Witness ==
    /\ pc = "file_mentions_done"
    /\ \E f \in Addable : \E g \in Addable :
          /\ g # f
          /\ basename(os_name, g) = basename(os_name, f)
          /\ basename(os_name, f) \in CandidateWords(user_message)
    /\ chat_files = <<>>
    /\ read_only_files = <<>>
    /\ mentioned_files = {}

-----------------------------------------------------------------------------
(* The identifier mentions, called on their own                            *)

IdentChars == { "a", "B", "1", "_", "-" }

InitIdents ==
    /\ os_name = "posix"
    /\ disk = [p \in {} |-> File(TRUE, <<>>)]
    /\ chat_files = <<>>
    /\ read_only_files = <<>>
    /\ user_message \in SeqsUpTo(IdentChars, MaxTextLen)
    /\ fence = DefaultFence
    /\ no_shell = FALSE
    /\ prompts = RepoPrompts(<<>>, <<>>, <<>>)
    /\ Untouched
    /\ pc = "idents"

CallGetIdentMentions ==
    /\ pc = "idents"
    /\ mentioned_idents' = get_ident_mentions(user_message)
    /\ pc' = "idents_done"
    /\ UNCHANGED <<os_name, disk, chat_files, read_only_files, user_message, fence,
                   prompts, chunks, repo_map_content, read_only_content,
                   chat_files_content, mentioned_files, addable, content,
                   final_prompt_messages, no_shell>>

NextIdents == CallGetIdentMentions

SpecIdents == InitIdents /\ [][NextIdents]_vars

\* C8: get_ident_mentions returns exactly the runs of alphanumeric characters
\* of the text that have length >= 3 and are not all digits, so every returned
\* token is alphanumeric, and the empty text gives the empty set.
C8_IdentTokens ==
    pc = "idents_done" =>
        /\ mentioned_idents =
              { w \in { SubSeq(user_message, r[1], r[2]) : r \in Runs(user_message, Alnum) } :
                  Len(w) >= 3 /\ \E k \in 1..Len(w) : w[k] \notin Digits }
        /\ \A w \in mentioned_idents : \A k \in 1..Len(w) : w[k] \in Alnum
        /\ user_message = <<>> => mentioned_idents = {}

-----------------------------------------------------------------------------
(* The content formatter, called on its own                                *)

FormatNames == { P_ap, P_bp, P_img, P_blank }

FileContents == SeqsUpTo({"x", " ", NL}, MaxContentLen)

\* a.p and the file named " " hold the text; b.p cannot be read; i.PNG is an
\* image, never opened
FormatDisks ==
    { [p \in {P_ap, P_bp, P_blank} |->
          IF p = P_bp THEN File(FALSE, <<>>) ELSE File(TRUE, c)] : c \in FileContents }

Fences ==
    { <<BT3, BT3>>, <<BT4, BT4>>, << <<>>, <<>> >>, <<BT3, BT3 \o <<NL>> >>,
      << <<" ">>, <<" ">> >> }

InitFormat ==
    /\ os_name \in OsNames
    /\ disk \in FormatDisks
    /\ chat_files \in SeqsUpTo(FormatNames, MaxFiles)
    /\ read_only_files = <<>>
    /\ user_message = <<>>
    /\ fence \in Fences
    /\ no_shell = FALSE
    /\ prompts = RepoPrompts(<<>>, <<>>, <<>>)
    /\ Untouched
    /\ pc = "format"

CallFormatFilesContent ==
    /\ pc = "format"
    /\ content' = format_blocks(os_name, disk, chat_files, fence)
    /\ chat_files_content' = format_files_content(os_name, disk, chat_files, fence)
    /\ pc' = "format_done"
    /\ UNCHANGED <<os_name, disk, chat_files, read_only_files, user_message, fence,
                   prompts, chunks, repo_map_content, read_only_content,
                   mentioned_files, mentioned_idents, addable, final_prompt_messages,
                   no_shell>>

NextFormat == CallFormatFilesContent

SpecFormat == InitFormat /\ [][NextFormat]_vars

\* s ends with exactly one newline
EndsWithOneNewline(t) ==
    /\ Len(t) >= 1
    /\ t[Len(t)] = NL
    /\ (Len(t) = 1 \/ t[Len(t) - 1] # NL)

WhitespaceOnly(t) == \A k \in 1..Len(t) : t[k] \in Whitespace

\* C9 as stated: for every file list, fence pair and contents the result is
\* empty when the list is empty, and otherwise ends with exactly one newline
\* and is not whitespace-only.
C9_Original ==
    pc = "format_done" =>
        IF chat_files = <<>> THEN chat_files_content = <<>>
        ELSE EndsWithOneNewline(chat_files_content) /\ ~WhitespaceOnly(chat_files_content)

\* C9 amended: the result is empty when the list is empty and otherwise
\* non-empty and ending with a newline; it ends with exactly one newline
\* provided the closing fence is non-empty and does not end with a newline, and
\* it is not whitespace-only provided the closing fence ends with a
\* non-whitespace character.
C9_TrailingNewline ==
    pc = "format_done" =>
        IF chat_files = <<>> THEN chat_files_content = <<>>
        ELSE /\ chat_files_content # <<>>
             /\ chat_files_content[Len(chat_files_content)] = NL
             /\ (fence[2] # <<>> /\ fence[2][Len(fence[2])] # NL)
                   => EndsWithOneNewline(chat_files_content)
             /\ (fence[2] # <<>> /\ fence[2][Len(fence[2])] \notin Whitespace)
                   => ~WhitespaceOnly(chat_files_content)

C9_Witness ==
    /\ pc = "format_done"
    /\ Len(chat_files) = 2
    /\ fence = <<BT3, BT3>>
    /\ EndsWithOneNewline(chat_files_content)

\* The text between the opening fence's line and the closing fence in block i
BlockText(i) ==
    SubSeq(content[i], Len(chat_files[i]) + Len(fence[1]) + 3,
           Len(content[i]) - Len(fence[2]))

\* File i of the list is not an image and was read
ReadAsText(i) ==
    /\ ~IsImage(os_name, chat_files[i])
    /\ Resolve(os_name, chat_files[i]) \in DOMAIN disk
    /\ disk[Resolve(os_name, chat_files[i])].readable

\* C10 as stated: whatever the content of a non-image file that is read, the
\* text placed in its block ends with exactly one newline right before the
\* closing fence.
C10_Original ==
    pc = "format_done" =>
        \A i \in 1..Len(chat_files) : ReadAsText(i) => EndsWithOneNewline(BlockText(i))

\* C10 amended: the text placed in the block is the content itself when the
\* content is empty or ends with a newline, and the content followed by one
\* newline otherwise; the closing fence always directly follows a newline, and
\* the text ends with exactly one newline iff the content is non-empty and does
\* not end with two or more newlines.
C10_TextBeforeFence ==
    pc = "format_done" =>
        \A i \in 1..Len(chat_files) : ReadAsText(i) =>
            LET raw == disk[Resolve(os_name, chat_files[i])].text
                t == BlockText(i)
                n == Len(raw)
            IN  /\ content[i][Len(content[i]) - Len(fence[2])] = NL
                /\ (n = 0 \/ raw[n] = NL) => t = raw
                /\ (n > 0 /\ raw[n] # NL) => t = raw \o <<NL>>
                /\ EndsWithOneNewline(t) <=> (n > 0 /\ ~(n >= 2 /\ raw[n] = NL /\ raw[n - 1] = NL))

C10_Witness ==
    /\ pc = "format_done"
    /\ \E i \in 1..Len(chat_files) :
          /\ ReadAsText(i)
          /\ disk[Resolve(os_name, chat_files[i])].text = <<"x", NL, "x">>
          /\ BlockText(i) = <<"x", NL, "x", NL>>

-----------------------------------------------------------------------------
(* The two generate_map calls of one run                                   *)

\* The text the first generate_map call returned, as chunks.repo keeps it
FirstMapText ==
    IF chunks.repo = <<>> THEN <<>>
    ELSE SubSeq(chunks.repo[1].content,
                Len(chunks.repo[1].content), Len(chunks.repo[1].content))

\* The context chunk starts with a repository-summary pair
ContextHasSummaryPair ==
    /\ Len(chunks.context) >= 2
    /\ chunks.context[1].role = "user"
    /\ chunks.context[1].content[1] = "[repo_content_prefix]"
    /\ chunks.context[2] =
          [role |-> "assistant",
           content |-> <<"Ok, I won't try and edit those files without asking first.">>]

\* C11: whatever the two generate_map calls of a run return, the context chunk
\* has the repository-summary pair iff the chat-files pair was chosen with
\* has_repo_map true (the second call's text is non-empty), the "repo map
\* exists, no full files" pair never comes without a summary pair before it,
\* and nothing computed from the first call is in the final sequence.
C11_SecondCallOnly ==
    /\ ContextBuilt =>
          /\ ContextHasSummaryPair <=> repo_map_content # <<>>
          /\ (prompts.files_no_full_files_with_repo_map # <<>>
                 /\ ContextChatPair = RepoMapNoFilesPair)
                => (ContextHasSummaryPair /\ Len(chunks.context) >= 4)
    /\ pc = "done" =>
          /\ (FirstMapText # <<>> /\ FirstMapText # repo_map_content)
                => \A i \in 1..Len(final_prompt_messages) :
                      \A k \in 1..Len(final_prompt_messages[i].content) :
                          final_prompt_messages[i].content[k] # FirstMapText[1]
          /\ (chat_files_content = <<>>
                 /\ prompts.files_no_full_files_with_repo_map # <<>>
                 /\ (FirstMapText = <<>>) # (repo_map_content = <<>>))
                => /\ chunks.chat_files # ContextChatPair
                   /\ \A i \in 1..Len(final_prompt_messages) :
                         final_prompt_messages[i] # chunks.chat_files[1]

C11_Witness ==
    /\ pc = "done"
    /\ FirstMapText # <<>>
    /\ repo_map_content = <<>>
    /\ chat_files_content = <<>>
    /\ prompts.files_no_full_files_with_repo_map # <<>>
    /\ chunks.chat_files = RepoMapNoFilesPair
    /\ ContextChatPair = PlainNoFilesPair
    /\ ~ContextHasSummaryPair

====
